---------------------------- MODULE Spec2Model ----------------------------
(***************************************************************************)
(* Model of orgb::Client (src/src/Client.cpp): the session state machine   *)
(* of the OpenRGB SDK client, its request/reply discipline and the         *)
(* device-list freshness flag.                                             *)
(*                                                                         *)
(* The client is single-threaded and synchronous.  An operation runs from  *)
(* its call to the next blocking socket read in one step; every blocking   *)
(* read (header or body of awaitMessage) is a step of its own, so that the *)
(* server can act in between.  The socket library (own::TcpSocket) and the *)
(* server are the environment: their outcomes are inputs of the actions.   *)
(*                                                                         *)
(* The inbound byte stream is a sequence of tokens: a 16-byte header is    *)
(* one token, a message body is one token.                                 *)
(***************************************************************************)
EXTENDS Integers, Sequences, FiniteSets, TLC

\* ------------------------------------------------------------------ bounds

\* largest device count the server reports
MaxDevices == 2
\* number of DEVICE_LIST_UPDATED notifications the server emits in a run
MaxNotifications == 2
\* protocol version the client implements (argument of RequestProtocolVersion); the
\* operations depend on it only through min( implementedProtocolVersion, serverVersion )
implementedProtocolVersion == 3

\* --------------------------------------------------------------- constants

\* receive timeout in ms that connect sets
DefaultTimeout == 500

\* versions a server may report: legacy, older than the client, newer
ServerVersions == {0, implementedProtocolVersion - 1, implementedProtocolVersion + 1}
\* timeouts the caller passes to setTimeout
Timeouts == {1000}
clientName == "orgb::Client"

Min(a, b) == IF a < b THEN a ELSE b

\* the pass counter of a sweep (history) stops counting here; a sweep restarts once
\* per notification at most, so it makes MaxNotifications + 1 passes at most
MaxPasses == MaxNotifications + 2

VARIABLES
    isConnected,                 \* _socket->isConnected()
    blockingMode,                \* mode of the OS socket: "blocking", "nonblocking", "none" when closed
    timeout,                     \* receive timeout of the OS socket, 0 when closed
    negotiatedProtocolVersion,   \* _negotiatedProtocolVersion
    isDeviceListOutOfDate,       \* _isDeviceListOutOfDate
    pc,                          \* "ready", the blocking read the running operation waits in, or
                                 \* "done" when an operation has returned and the caller holds its result
    loc,                         \* locals of the running operation
    inbound,                     \* bytes the server sent that the client has not read, as tokens
    pending,                     \* reply-expecting requests the server has not processed
    peerClosed,                  \* the server closed the connection
    notifications,               \* DEVICE_LIST_UPDATED messages the server has emitted
    call,                        \* history: the last call and the state it was made in
    ret,                         \* history: what the last operation returned
    io                           \* history: socket calls and awaitMessage returns of the client's last step

vars == <<isConnected, blockingMode, timeout, negotiatedProtocolVersion, isDeviceListOutOfDate,
          pc, loc, inbound, pending, peerClosed, notifications, call, ret, io>>

\* The state the client code and the socket library act on, as one record.
Cur ==
    [isConnected |-> isConnected, blockingMode |-> blockingMode, timeout |-> timeout,
     negotiatedProtocolVersion |-> negotiatedProtocolVersion,
     isDeviceListOutOfDate |-> isDeviceListOutOfDate,
     pc |-> pc, loc |-> loc, inbound |-> inbound, pending |-> pending,
     peerClosed |-> peerClosed, call |-> call, ret |-> ret, io |-> io]

Install(n) ==
    /\ isConnected' = n.isConnected
    /\ blockingMode' = n.blockingMode
    /\ timeout' = n.timeout
    /\ negotiatedProtocolVersion' = n.negotiatedProtocolVersion
    /\ isDeviceListOutOfDate' = n.isDeviceListOutOfDate
    /\ pc' = n.pc
    /\ loc' = n.loc
    /\ inbound' = n.inbound
    /\ pending' = n.pending
    /\ peerClosed' = n.peerClosed
    /\ call' = n.call
    /\ ret' = n.ret
    /\ io' = n.io

\* ---------------------------------------------------------------- messages

\* a frame the client sends: message type, header device index, and the body's fields
Frame(type, dev, idx, val, name, colors) ==
    [type |-> type, dev |-> dev, idx |-> idx, val |-> val, name |-> name, colors |-> colors]

RequestProtocolVersion(version) == Frame("REQUEST_PROTOCOL_VERSION", 0, 0, version, "", <<>>)
SetClientName(name) == Frame("SET_CLIENT_NAME", 0, 0, 0, name, <<>>)
RequestControllerCount == Frame("REQUEST_CONTROLLER_COUNT", 0, 0, 0, "", <<>>)
RequestControllerData(deviceIdx, version) == Frame("REQUEST_CONTROLLER_DATA", deviceIdx, 0, version, "", <<>>)
RequestProfileList == Frame("REQUEST_PROFILE_LIST", 0, 0, 0, "", <<>>)
SetCustomMode(deviceIdx) == Frame("SET_CUSTOM_MODE", deviceIdx, 0, 0, "", <<>>)
UpdateMode(deviceIdx, modeIdx, mode, version) == Frame("UPDATE_MODE", deviceIdx, modeIdx, version, mode.name, <<>>)
SaveMode(deviceIdx, modeIdx, mode, version) == Frame("SAVE_MODE", deviceIdx, modeIdx, version, mode.name, <<>>)
UpdateLEDs(deviceIdx, colors) == Frame("UPDATE_LEDS", deviceIdx, 0, 0, "", colors)
UpdateZoneLEDs(deviceIdx, zoneIdx, colors) == Frame("UPDATE_ZONE_LEDS", deviceIdx, zoneIdx, 0, "", colors)
UpdateSingleLED(deviceIdx, ledIdx, color) == Frame("UPDATE_SINGLE_LED", deviceIdx, ledIdx, 0, "", <<color>>)
ResizeZone(deviceIdx, zoneIdx, newSize) == Frame("RESIZE_ZONE", deviceIdx, zoneIdx, newSize, "", <<>>)
RequestSaveProfile(name) == Frame("REQUEST_SAVE_PROFILE", 0, 0, 0, name, <<>>)
RequestLoadProfile(name) == Frame("REQUEST_LOAD_PROFILE", 0, 0, 0, name, <<>>)

\* requests the server answers, and the reply type of each
ReplyTypeOf ==
    [REQUEST_PROTOCOL_VERSION |-> "REPLY_PROTOCOL_VERSION",
     REQUEST_CONTROLLER_COUNT |-> "REPLY_CONTROLLER_COUNT",
     REQUEST_CONTROLLER_DATA  |-> "REPLY_CONTROLLER_DATA",
     REQUEST_PROFILE_LIST     |-> "REPLY_PROFILE_LIST"]

ReplyExpecting == DOMAIN ReplyTypeOf

\* stale is history: the client has sent a later reply-expecting request since the
\* server sent these bytes, so they answer an earlier request than the newest one
HeaderTok(type, dev, valid) ==
    [k |-> "hdr", type |-> type, dev |-> dev, valid |-> valid, val |-> 0, stale |-> FALSE]
BodyTok(type, dev, valid, val) ==
    [k |-> "body", type |-> type, dev |-> dev, valid |-> valid, val |-> val, stale |-> FALSE]
DeviceListUpdated == HeaderTok("DEVICE_LIST_UPDATED", 0, TRUE)

NoMessage == [type |-> "none", dev |-> 0, val |-> 0, stale |-> FALSE]
\* locals of the running operation; skipped, pass and dirty are history: the notifications
\* the running awaitMessage has skipped, the passes of the sweep, and those that saw a notification
NoLoc == [op |-> "none", stage |-> "none", expect |-> "none", header |-> NoMessage,
          deviceIdx |-> 0, count |-> 0, devices |-> <<>>, skipped |-> 0, pass |-> 0, dirty |-> 0,
          passDirty |-> FALSE]

\* Header::deserialize: the 16 bytes are a header iff they start with the magic ORGB;
\* bytes read at a body's position are not a header.
HeaderDeserialize(tok) ==
    [ok |-> tok.k = "hdr" /\ tok.valid, message_type |-> tok.type, device_idx |-> tok.dev]

\* Message::deserializeBody: the bytes decode iff they are a well-formed body of this message type.
DeserializeBody(expect, tok) == tok.k = "body" /\ tok.valid /\ tok.type = expect

\* ------------------------------------------------------------------ socket

\* The server answers the newest request only: a request it has not answered when
\* the next one arrives is never answered.
Enqueue(q, frame) == <<frame>>

\* TcpSocket::disconnect returning res: the OS socket is closed, whatever the result code.
SocketClose(s, res) ==
    [s EXCEPT !.isConnected = FALSE, !.blockingMode = "none", !.timeout = 0,
              !.inbound = <<>>, !.pending = <<>>, !.peerClosed = FALSE,
              !.io = Append(@, [call |-> "disconnect", res |-> res])]

\* TcpSocket::disconnect where the code does not look at the result
SocketDisconnect(s) == SocketClose(s, IF s.isConnected THEN "Success" ELSE "NotConnected")

\* what TcpSocket::disconnect can return: closing a connection the server has
\* already torn down may report a network error
DisconnectOutcomes(s) == IF s.isConnected THEN {"Success", "OtherError"} ELSE {"NotConnected"}

\* TcpSocket::receive of one token; a receive that reports ConnectionClosed may
\* have closed the socket on the client's side as well (r.closes).
SocketReceive(s, r) ==
    LET s1 == [s EXCEPT !.io = Append(@, [call |-> "receive", res |-> r.res,
                                          tok |-> IF r.res = "Success" THEN Head(s.inbound)
                                                  ELSE DeviceListUpdated])]
    IN  IF r.res = "Success" THEN [s1 EXCEPT !.inbound = Tail(@)]
        ELSE IF r.closes
             THEN [s1 EXCEPT !.isConnected = FALSE, !.blockingMode = "none", !.timeout = 0,
                             !.inbound = <<>>, !.pending = <<>>, !.peerClosed = FALSE]
             ELSE s1

\* What a receive can return in the current state, the socket being in blocking mode or not.
ReceiveOutcomes(blocking) ==
    IF ~isConnected THEN {[res |-> "NotConnected", closes |-> FALSE]}
    ELSE {[res |-> "OtherError", closes |-> FALSE]} \cup
         (IF inbound # <<>> THEN {[res |-> "Success", closes |-> FALSE]}
          ELSE IF peerClosed
               THEN {[res |-> "ConnectionClosed", closes |-> b] : b \in BOOLEAN}
               ELSE {[res |-> IF blocking THEN "Timeout" ELSE "WouldBlock", closes |-> FALSE]})

\* TcpSocket::setBlockingMode succeeds only on an open socket; a failed call changes nothing.
SetBlockingOk(s, ok) == ok /\ s.isConnected

SocketSetBlockingMode(s, enable, ok) ==
    [s EXCEPT !.blockingMode = IF SetBlockingOk(s, ok)
                               THEN (IF enable THEN "blocking" ELSE "nonblocking") ELSE @,
              !.io = Append(@, [call |-> "setBlockingMode", enable |-> enable,
                                res |-> IF SetBlockingOk(s, ok) THEN "Success" ELSE "Error"])]

\* TcpSocket::setTimeout on an open socket
SocketSetTimeout(s, t, ok) ==
    [s EXCEPT !.timeout = IF ok THEN t ELSE @,
              !.io = Append(@, [call |-> "setTimeout", res |-> IF ok THEN "Success" ELSE "Error"])]

\* ----------------------------------------------------------------- helpers

\* history: the unread bytes of replies, as they are once a further request is sent
MarkStale(q) ==
    [i \in DOMAIN q |-> IF q[i].type = "DEVICE_LIST_UPDATED" THEN q[i] ELSE [q[i] EXCEPT !.stale = TRUE]]

\* Client::sendMessage: serialize and send one frame; the operation reads `ok`.  The
\* event keeps, as history, the requests the server still held and the bytes the client
\* had not read when the frame was sent.
sendMessage(s, frame, ok) ==
    [s EXCEPT !.io = Append(@, [call |-> "send", res |-> IF ok THEN "Success" ELSE "Error",
                                frame |-> frame, unanswered |-> s.pending, unread |-> s.inbound]),
              !.pending = IF ok /\ frame.type \in ReplyExpecting THEN Enqueue(@, frame) ELSE @,
              !.inbound = IF ok /\ frame.type \in ReplyExpecting THEN MarkStale(@) ELSE @]

\* what an operation returned; passes, dirty, passDirty and count are history of a sweep:
\* its passes, those that consumed a notification, whether the last one did, the last count
NoRet == [status |-> "none", devices |-> <<>>, value |-> 0, passes |-> 0, dirty |-> 0,
          passDirty |-> FALSE, count |-> 0]

\* the operation returns to its caller
Return(s, status, devices, value) ==
    [s EXCEPT !.pc = "done", !.loc = NoLoc,
              !.ret = [status |-> status, devices |-> devices, value |-> value,
                       passes |-> s.loc.pass, dirty |-> s.loc.dirty,
                       passDirty |-> s.loc.passDirty, count |-> s.loc.count]]

\* the operation enters awaitMessage< expect >
Await(s, expect, stage) ==
    [s EXCEPT !.pc = "await_hdr", !.loc.expect = expect, !.loc.stage = stage,
              !.loc.header = NoMessage, !.loc.skipped = 0]

NoCall == [op |-> "none", arg |-> 0, wasConnected |-> FALSE, wasOutOfDate |-> FALSE, wasVersion |-> 0]

\* an operation is called
Enter(s, op, arg) ==
    [s EXCEPT !.call = [op |-> op, arg |-> arg, wasConnected |-> s.isConnected,
                        wasOutOfDate |-> s.isDeviceListOutOfDate,
                        wasVersion |-> s.negotiatedProtocolVersion],
              !.loc = [NoLoc EXCEPT !.op = op],
              !.ret = NoRet,
              !.io = <<>>]

\* ------------------------------------------------------- requestDeviceList

\* mutation: the list is not cleared at the start of a pass
clearDevices_keep(devices) == devices

\* result.devices.clear()
clearDevices(devices) == <<>>

\* mutation: the flag is not cleared at the start of a pass
flagAtPassStart_keep(flag) == flag

\* _isDeviceListOutOfDate = false at the top of the do-loop
flagAtPassStart(flag) == FALSE

\* mutation: the sweep never restarts
sweepAgain_never(flag) == FALSE

\* while (_isDeviceListOutOfDate)
sweepAgain(flag) == flag

\* top of the do-loop up to the first blocking read
sweepPass(s, sendOk) ==
    LET s1 == [s EXCEPT !.loc.devices = clearDevices(@),
                        !.loc.pass = Min(@ + 1, MaxPasses), !.loc.passDirty = FALSE,
                        !.io = Append(@, [call |-> "sweepPass", res |-> "Success"]),
                        !.isDeviceListOutOfDate = flagAtPassStart(@)]
        s2 == sendMessage(s1, RequestControllerCount, sendOk)
    IN  IF ~sendOk THEN Return(s2, "SendRequestFailed", s2.loc.devices, 0)
        ELSE Await(s2, "REPLY_CONTROLLER_COUNT", "count")

\* mutation: the for-loop is left as soon as the flag is set
dataLoop_restartAtOnce(s, sendOk) ==
    IF s.isDeviceListOutOfDate THEN sweepPass(s, sendOk)
    ELSE IF s.loc.deviceIdx < s.loc.count
    THEN LET s1 == sendMessage(s, RequestControllerData(s.loc.deviceIdx, s.negotiatedProtocolVersion), sendOk)
         IN  IF ~sendOk THEN Return(s1, "SendRequestFailed", s1.loc.devices, 0)
             ELSE Await(s1, "REPLY_CONTROLLER_DATA", "data")
    ELSE Return(s, "Success", s.loc.devices, 0)

\* head of the for-loop, its send, and the loop's exit into the while condition
dataLoop(s, sendOk) ==
    IF s.loc.deviceIdx < s.loc.count
    THEN LET s1 == sendMessage(s, RequestControllerData(s.loc.deviceIdx, s.negotiatedProtocolVersion), sendOk)
         IN  IF ~sendOk THEN Return(s1, "SendRequestFailed", s1.loc.devices, 0)
             ELSE Await(s1, "REPLY_CONTROLLER_DATA", "data")
    ELSE IF sweepAgain(s.isDeviceListOutOfDate) THEN sweepPass(s, sendOk)
         ELSE Return(s, "Success", s.loc.devices, 0)

\* mutation: the for-loop starts at index 1
rdlAfterCount_fromOne(s, status, msg, sendOk) ==
    IF status # "Success" THEN Return(s, status, s.loc.devices, 0)
    ELSE dataLoop([s EXCEPT !.loc.count = msg.val, !.loc.deviceIdx = 1], sendOk)

\* after awaitMessage< ReplyControllerCount >: the for-loop starts at index 0
rdlAfterCount(s, status, msg, sendOk) ==
    IF status # "Success" THEN Return(s, status, s.loc.devices, 0)
    ELSE dataLoop([s EXCEPT !.loc.count = msg.val, !.loc.deviceIdx = 0], sendOk)

\* mutation: a failed exchange starts the sweep again when the list is out of date
rdlAfterData_retry(s, status, msg, sendOk) ==
    IF status # "Success"
    THEN (IF s.isDeviceListOutOfDate THEN sweepPass(s, sendOk)
          ELSE Return(s, status, s.loc.devices, 0))
    ELSE dataLoop([s EXCEPT !.loc.devices = Append(@, [idx |-> msg.dev, pass |-> s.loc.pass]),
                            !.loc.deviceIdx = @ + 1], sendOk)

\* after awaitMessage< ReplyControllerData >: the reply is appended to the list
rdlAfterData(s, status, msg, sendOk) ==
    IF status # "Success" THEN Return(s, status, s.loc.devices, 0)
    ELSE dataLoop([s EXCEPT !.loc.devices = Append(@, [idx |-> msg.dev, pass |-> s.loc.pass]),
                            !.loc.deviceIdx = @ + 1], sendOk)

\* mutation: the sweep starts without the isConnected check
requestDeviceList_unguarded(s, sendOk) == sweepPass(s, sendOk)

requestDeviceList(s, sendOk) ==
    IF ~s.isConnected THEN Return(s, "NotConnected", <<>>, 0)
    ELSE sweepPass(s, sendOk)

\* ------------------------------------ requestDeviceCount, requestDeviceInfo

requestDeviceCount(s, sendOk) ==
    IF ~s.isConnected THEN Return(s, "NotConnected", <<>>, 0)
    ELSE LET s1 == sendMessage(s, RequestControllerCount, sendOk)
         IN  IF ~sendOk THEN Return(s1, "SendRequestFailed", <<>>, 0)
             ELSE Await(s1, "REPLY_CONTROLLER_COUNT", "count")

countAfterReply(s, status, msg) ==
    IF status # "Success" THEN Return(s, status, <<>>, 0)
    ELSE Return(s, "Success", <<>>, msg.val)

requestDeviceInfo(s, deviceIdx, sendOk) ==
    IF ~s.isConnected THEN Return(s, "NotConnected", <<>>, 0)
    ELSE LET s1 == sendMessage(s, RequestControllerData(deviceIdx, s.negotiatedProtocolVersion), sendOk)
         IN  IF ~sendOk THEN Return(s1, "SendRequestFailed", <<>>, 0)
             ELSE Await(s1, "REPLY_CONTROLLER_DATA", "data")

infoAfterReply(s, status, msg) ==
    IF status # "Success" THEN Return(s, status, <<>>, 0)
    ELSE Return(s, "Success", <<[idx |-> msg.dev, pass |-> 0]>>, 0)

requestProfileList(s, sendOk) ==
    IF ~s.isConnected THEN Return(s, "NotConnected", <<>>, 0)
    ELSE LET s1 == sendMessage(s, RequestProfileList, sendOk)
         IN  IF ~sendOk THEN Return(s1, "SendRequestFailed", <<>>, 0)
             ELSE Await(s1, "REPLY_PROFILE_LIST", "profiles")

profilesAfterReply(s, status, msg) ==
    IF status # "Success" THEN Return(s, status, <<>>, 0)
    ELSE Return(s, "Success", <<>>, msg.val)

\* --------------------------------------------------- disconnect, setTimeout

\* mutation: disconnect reports a torn down connection whatever the socket says
disconnectResult_always(status) == "true"

\* the bool _disconnect returns for the socket's result
disconnectResult(status) == IF status = "NotConnected" THEN "false" ELSE "true"

disconnect(s, status) == Return(SocketClose(s, status), disconnectResult(status), <<>>, 0)

\* mutation: the timeout is set without the isConnected check
setTimeout_unguarded(s, t, ok) ==
    Return(SocketSetTimeout(s, t, ok), IF ok THEN "true" ELSE "false", <<>>, 0)

\* Client::_setTimeout
setTimeout(s, t, ok) ==
    IF ~s.isConnected THEN Return(s, "false", <<>>, 0)
    ELSE Return(SocketSetTimeout(s, t, ok), IF ok THEN "true" ELSE "false", <<>>, 0)

\* ------------------------------------------------------ mutating operations

\* mutation: the result of the send is not looked at
sendOnly_ignoreSend(s, frame, sendOk) ==
    IF ~s.isConnected THEN Return(s, "NotConnected", <<>>, 0)
    ELSE Return(sendMessage(s, frame, sendOk), "Success", <<>>, 0)

\* the shape shared by the ten fire-and-forget operations
sendOnly(s, frame, sendOk) ==
    IF ~s.isConnected THEN Return(s, "NotConnected", <<>>, 0)
    ELSE LET s1 == sendMessage(s, frame, sendOk)
         IN  IF ~sendOk THEN Return(s1, "SendRequestFailed", <<>>, 0)
             ELSE Return(s1, "Success", <<>>, 0)

\* mutation: one color instead of n
Repeat_one(n, color) == <<color>>

\* std::vector< Color >( n, color )
Repeat(n, color) == [i \in 1..n |-> color]

switchToCustomMode(s, device, sendOk) == sendOnly(s, SetCustomMode(device.idx), sendOk)
changeMode(s, device, mode, sendOk) ==
    sendOnly(s, UpdateMode(device.idx, mode.idx, mode, s.negotiatedProtocolVersion), sendOk)
saveMode(s, device, mode, sendOk) ==
    sendOnly(s, SaveMode(device.idx, mode.idx, mode, s.negotiatedProtocolVersion), sendOk)
setDeviceColor(s, device, color, sendOk) ==
    sendOnly(s, UpdateLEDs(device.idx, Repeat(device.leds, color)), sendOk)
setZoneColor(s, zone, color, sendOk) ==
    sendOnly(s, UpdateZoneLEDs(zone.parentIdx, zone.idx, Repeat(zone.leds_count, color)), sendOk)
setZoneSize(s, zone, newSize, sendOk) ==
    sendOnly(s, ResizeZone(zone.parentIdx, zone.idx, newSize), sendOk)
\* mutation: the LED's own index goes into the header, its device's into the body
setLEDColor_swapped(s, led, color, sendOk) ==
    sendOnly(s, UpdateSingleLED(led.idx, led.parentIdx, color), sendOk)

setLEDColor(s, led, color, sendOk) ==
    sendOnly(s, UpdateSingleLED(led.parentIdx, led.idx, color), sendOk)
saveProfile(s, profileName, sendOk) == sendOnly(s, RequestSaveProfile(profileName), sendOk)
loadProfile(s, profileName, sendOk) == sendOnly(s, RequestLoadProfile(profileName), sendOk)
deleteProfile(s, profileName, sendOk) == sendOnly(s, RequestLoadProfile(profileName), sendOk)

\* --------------------------------------------------- checkForDeviceUpdates

\* mutation: the lambda returns without restoring blocking mode
enableBlockingAndReturn_skip(s, restoreOk, returnStatus) == [s |-> s, status |-> returnStatus]

\* mutation: the lambda does not disconnect when it cannot restore blocking mode
enableBlockingAndReturn_keepOpen(s, restoreOk, returnStatus) ==
    LET s1 == SocketSetBlockingMode(s, TRUE, restoreOk)
    IN  IF ~SetBlockingOk(s, restoreOk)
        THEN [s |-> s1, status |-> "CantRestoreSocket"]
        ELSE [s |-> s1, status |-> returnStatus]

\* the lambda of checkForUpdateMessageArrival: back to blocking mode, or give the session up
enableBlockingAndReturn(s, restoreOk, returnStatus) ==
    LET s1 == SocketSetBlockingMode(s, TRUE, restoreOk)
    IN  IF ~SetBlockingOk(s, restoreOk)
        THEN [s |-> SocketDisconnect(s1), status |-> "CantRestoreSocket"]
        ELSE [s |-> s1, status |-> returnStatus]

\* mutation: ConnectionClosed is not told apart from the other read failures
peekStatus_noClosed(r, tok) ==
    IF r.res = "WouldBlock" THEN "UpToDate"
    ELSE IF r.res # "Success" THEN "OtherSystemError"
    ELSE IF ~HeaderDeserialize(tok).ok \/ HeaderDeserialize(tok).message_type # "DEVICE_LIST_UPDATED"
         THEN "UnexpectedMessage"
    ELSE "OutOfDate"

\* the status of the non-blocking header read, before blocking mode is restored
peekStatus(r, tok) ==
    IF r.res = "WouldBlock" THEN "UpToDate"
    ELSE IF r.res = "ConnectionClosed" THEN "ConnectionClosed"
    ELSE IF r.res # "Success" THEN "OtherSystemError"
    ELSE IF ~HeaderDeserialize(tok).ok \/ HeaderDeserialize(tok).message_type # "DEVICE_LIST_UPDATED"
         THEN "UnexpectedMessage"
    ELSE "OutOfDate"

checkForUpdateMessageArrival(s, nbOk, r, restoreOk) ==
    LET s1 == SocketSetBlockingMode(s, FALSE, nbOk)
        s2 == SocketReceive(s1, r)
    IN  IF ~SetBlockingOk(s, nbOk) THEN [s |-> s1, status |-> "OtherSystemError"]
        ELSE enableBlockingAndReturn(s2, restoreOk,
                 peekStatus(r, IF r.res = "Success" THEN Head(s.inbound) ELSE DeviceListUpdated))

\* mutation: every message the check finds marks the list out of date
flagAfterCheck_anyMessage(flag, status) ==
    IF status \in {"OutOfDate", "UnexpectedMessage"} THEN TRUE ELSE flag

\* mutation: the check reports the notification and does not remember it
flagAfterCheck_keep(flag, status) == flag

\* _isDeviceListOutOfDate after checkForUpdateMessageArrival returned
flagAfterCheck(flag, status) == IF status = "OutOfDate" THEN TRUE ELSE flag

\* mutation: the socket is looked at even when the flag is set
checkForDeviceUpdates_always(s, nbOk, r, restoreOk) ==
    LET c == checkForUpdateMessageArrival(s, nbOk, r, restoreOk)
    IN  Return([c.s EXCEPT !.isDeviceListOutOfDate = flagAfterCheck(@, c.status)],
               c.status, <<>>, 0)

checkForDeviceUpdates(s, nbOk, r, restoreOk) ==
    IF s.isDeviceListOutOfDate THEN Return(s, "OutOfDate", <<>>, 0)
    ELSE LET c == checkForUpdateMessageArrival(s, nbOk, r, restoreOk)
         IN  Return([c.s EXCEPT !.isDeviceListOutOfDate = flagAfterCheck(@, c.status)],
                    c.status, <<>>, 0)

\* ----------------------------------------------------------------- connect

\* mutation: a failed step of connect leaves the socket open
failConnect_leaveOpen(s, status) == Return(s, status, <<>>, 0)

\* _socket->disconnect(); return status: a step of connect has failed
failConnect(s, status) == Return(SocketDisconnect(s), status, <<>>, 0)

\* mutation: the version-less protocol is accepted
isVersionless_never(serverVersion) == FALSE

\* requestVersionRes.message.serverVersion == 0
isVersionless(serverVersion) == serverVersion = 0

\* mutation: the server's version is taken as it is
negotiate_server(serverVersion) == serverVersion

\* std::min( implementedProtocolVersion, requestVersionRes.message.serverVersion )
negotiate(serverVersion) == Min(implementedProtocolVersion, serverVersion)

\* mutation: connect leaves the flag as it was
flagAfterConnect_keep(flag) == flag

\* _isDeviceListOutOfDate = true at the end of connect
flagAfterConnect(flag) == TRUE

connectAfterVersion(s, status, msg, sendOk) ==
    IF status # "Success" THEN failConnect(s, "RequestVersionFailed")
    ELSE IF isVersionless(msg.val) THEN failConnect(s, "VersionNotSupported")
    ELSE LET s1 == [s EXCEPT !.negotiatedProtocolVersion = negotiate(msg.val)]
             s2 == sendMessage(s1, SetClientName(clientName), sendOk)
         IN  IF ~sendOk THEN failConnect(s2, "SendNameFailed")
             ELSE Return([s2 EXCEPT !.isDeviceListOutOfDate = flagAfterConnect(@)], "Success", <<>>, 0)

\* mutation: a refused connect closes the socket like a failed handshake does
connectRefused_dropsSession(s, connectRes) ==
    failConnect(s, IF connectRes \in {"AlreadyConnected", "NetworkingInitFailed",
                                      "HostNotResolved", "ConnectFailed"}
                   THEN connectRes ELSE "OtherSystemError")

\* switch (connectRes): _socket->connect did not succeed, its error is translated
\* and returned, nothing else is done
connectRefused(s, connectRes) ==
    Return(s, IF connectRes \in {"AlreadyConnected", "NetworkingInitFailed", "HostNotResolved",
                                 "ConnectFailed"}
              THEN connectRes ELSE "OtherSystemError", <<>>, 0)

connect(s, connectRes, sendOk) ==
    IF connectRes # "Success"
    THEN connectRefused([s EXCEPT !.io = Append(@, [call |-> "connect", res |-> connectRes])],
                        connectRes)
    ELSE LET s1 == [s EXCEPT !.isConnected = TRUE, !.blockingMode = "blocking",
                             !.inbound = <<>>, !.pending = <<>>, !.peerClosed = FALSE,
                             !.io = Append(@, [call |-> "connect", res |-> "Success"])]
             s2 == SocketSetTimeout(s1, DefaultTimeout, TRUE)
             s3 == sendMessage(s2, RequestProtocolVersion(implementedProtocolVersion), sendOk)
         IN  IF ~sendOk THEN failConnect(s3, "RequestVersionFailed")
             ELSE Await(s3, "REPLY_PROTOCOL_VERSION", "version")

\* ------------------------------------------------------------ awaitMessage

\* the operation the running awaitMessage returns into
Resume(s, status, msg, sendOk) ==
    LET s1 == [s EXCEPT !.io = Append(@, [call |-> "awaitMessage", res |-> status,
                                          expect |-> s.loc.expect, dev |-> msg.dev, val |-> msg.val,
                                          skipped |-> s.loc.skipped, header |-> s.loc.header,
                                          outOfDate |-> s.isDeviceListOutOfDate])]
    IN  CASE s.loc.op = "connect" -> connectAfterVersion(s1, status, msg, sendOk)
          [] s.loc.op = "requestDeviceList" /\ s.loc.stage = "count" -> rdlAfterCount(s1, status, msg, sendOk)
          [] s.loc.op = "requestDeviceList" /\ s.loc.stage = "data" -> rdlAfterData(s1, status, msg, sendOk)
          [] s.loc.op = "requestDeviceCount" -> countAfterReply(s1, status, msg)
          [] s.loc.op = "requestDeviceInfo" -> infoAfterReply(s1, status, msg)
          [] s.loc.op = "requestProfileList" -> profilesAfterReply(s1, status, msg)

\* mutation: a receive that timed out is reported as any other receive error
receiveFailureStatus_noTimeout(res) ==
    IF res = "ConnectionClosed" THEN "ConnectionClosed" ELSE "ReceiveError"

\* the status awaitMessage gives a failed receive
receiveFailureStatus(res) ==
    IF res = "ConnectionClosed" THEN "ConnectionClosed"
    ELSE IF res = "Timeout" THEN "NoReply"
    ELSE "ReceiveError"

\* the skip condition of awaitMessage's do-while
isUpdateNotification(header) == header.message_type = "DEVICE_LIST_UPDATED"

\* mutation: a skipped notification does not set the flag
flagAfterHeader_keep(flag, header) == flag

\* _isDeviceListOutOfDate after a header was parsed
flagAfterHeader(flag, header) == IF isUpdateNotification(header) THEN TRUE ELSE flag

\* mutation: a header of any type is taken for the expected one
isExpectedType_any(header, expect) == TRUE

\* result.message.header.message_type != Message::thisType, negated
isExpectedType(header, expect) == header.message_type = expect

\* one pass of awaitMessage's do-while: receive a header, and what follows from it
awaitHeader(s, r, sendOk) ==
    LET s1 == SocketReceive(s, r)
        header == HeaderDeserialize(Head(s.inbound))
    IN  IF r.res # "Success" THEN Resume(s1, receiveFailureStatus(r.res), NoMessage, sendOk)
        ELSE IF ~header.ok THEN Resume(s1, "InvalidReply", NoMessage, sendOk)
        ELSE LET s2 == [s1 EXCEPT !.isDeviceListOutOfDate = flagAfterHeader(@, header)]
             IN  IF isUpdateNotification(header)
                 THEN [s2 EXCEPT !.loc.skipped = @ + 1,
                                 !.loc.dirty = IF s.loc.passDirty \/ s.loc.pass = 0 THEN @ ELSE @ + 1,
                                 !.loc.passDirty = TRUE]
                 ELSE IF ~isExpectedType(header, s.loc.expect) THEN Resume(s2, "InvalidReply", NoMessage, sendOk)
                 ELSE [s2 EXCEPT !.pc = "await_body",
                                 !.loc.header = [type |-> header.message_type,
                                                 dev |-> header.device_idx, val |-> 0,
                                                 stale |-> Head(s.inbound).stale]]

\* mutation: the body is not decoded
awaitBody_noDecode(s, r, sendOk) ==
    LET s1 == SocketReceive(s, r)
    IN  IF r.res # "Success" THEN Resume(s1, receiveFailureStatus(r.res), NoMessage, sendOk)
        ELSE Resume(s1, "Success", [s.loc.header EXCEPT !.val = Head(s.inbound).val], sendOk)

\* the body of the expected message: receive and decode
awaitBody(s, r, sendOk) ==
    LET s1 == SocketReceive(s, r)
    IN  IF r.res # "Success" THEN Resume(s1, receiveFailureStatus(r.res), NoMessage, sendOk)
        ELSE IF ~DeserializeBody(s.loc.expect, Head(s.inbound)) THEN Resume(s1, "InvalidReply", NoMessage, sendOk)
        ELSE Resume(s1, "Success", [s.loc.header EXCEPT !.val = Head(s.inbound).val], sendOk)

\* ------------------------------------------------------------------ server

\* the tokens of the server's answer to a request, by how the server behaves
ReplyTokens(req, flavour, v) ==
    LET type == ReplyTypeOf[req.type]
        val == IF req.type \in {"REQUEST_PROTOCOL_VERSION", "REQUEST_CONTROLLER_COUNT"} THEN v ELSE 0
    IN  CASE flavour = "good"      -> <<HeaderTok(type, req.dev, TRUE), BodyTok(type, req.dev, TRUE, val)>>
          [] flavour = "badmagic"  -> <<HeaderTok(type, req.dev, FALSE), BodyTok(type, req.dev, TRUE, val)>>
          [] flavour = "wrongtype" -> <<HeaderTok("REPLY_PROFILE_LIST", req.dev, TRUE),
                                        BodyTok("REPLY_PROFILE_LIST", req.dev, TRUE, 0)>>
          [] flavour = "wrongidx"  -> <<HeaderTok(type, req.dev + 1, TRUE), BodyTok(type, req.dev + 1, TRUE, val)>>
          [] flavour = "badbody"   -> <<HeaderTok(type, req.dev, TRUE), BodyTok(type, req.dev, FALSE, val)>>
          [] flavour = "nobody"    -> <<HeaderTok(type, req.dev, TRUE)>>

Flavours == {"good", "badmagic", "wrongtype", "wrongidx", "badbody", "nobody"}

\* ----------------------------------------------------------------- actions

Init ==
    /\ isConnected = FALSE
    /\ blockingMode = "none"
    /\ timeout = 0
    /\ negotiatedProtocolVersion = 0
    /\ isDeviceListOutOfDate = TRUE
    /\ pc = "ready"
    /\ loc = NoLoc
    /\ inbound = <<>>
    /\ pending = <<>>
    /\ peerClosed = FALSE
    /\ notifications = 0
    /\ call = NoCall
    /\ ret = NoRet
    /\ io = <<>>

ConnectResults == IF isConnected THEN {"AlreadyConnected"}
                  ELSE {"Success", "HostNotResolved", "ConnectFailed", "OtherError"}

CallConnect(connectRes, sendOk) ==
    /\ pc = "ready"
    /\ connectRes \in ConnectResults
    /\ Install(connect(Enter(Cur, "connect", 0), connectRes, sendOk))
    /\ UNCHANGED notifications

CallRequestDeviceList(sendOk) ==
    /\ pc = "ready"
    /\ Install(requestDeviceList(Enter(Cur, "requestDeviceList", 0), sendOk))
    /\ UNCHANGED notifications

CallDisconnect(status) ==
    /\ pc = "ready"
    /\ status \in DisconnectOutcomes(Cur)
    /\ Install(disconnect(Enter(Cur, "disconnect", 0), status))
    /\ UNCHANGED notifications

CallSetTimeout(t, ok) ==
    /\ pc = "ready"
    /\ Install(setTimeout(Enter(Cur, "setTimeout", t), t, ok))
    /\ UNCHANGED notifications

CallRequestDeviceCount(sendOk) ==
    /\ pc = "ready"
    /\ Install(requestDeviceCount(Enter(Cur, "requestDeviceCount", 0), sendOk))
    /\ UNCHANGED notifications

CallRequestDeviceInfo(deviceIdx, sendOk) ==
    /\ pc = "ready"
    /\ Install(requestDeviceInfo(Enter(Cur, "requestDeviceInfo", deviceIdx), deviceIdx, sendOk))
    /\ UNCHANGED notifications

CallRequestProfileList(sendOk) ==
    /\ pc = "ready"
    /\ Install(requestProfileList(Enter(Cur, "requestProfileList", 0), sendOk))
    /\ UNCHANGED notifications

\* the non-blocking read happens only if the switch to non-blocking mode succeeded
CallCheckForDeviceUpdates(nbOk, r, restoreOk) ==
    /\ pc = "ready"
    /\ r \in ReceiveOutcomes(FALSE)
    /\ Install(checkForDeviceUpdates(Enter(Cur, "checkForDeviceUpdates", 0), nbOk, r, restoreOk))
    /\ UNCHANGED notifications

CallSwitchToCustomMode(device, sendOk) ==
    /\ pc = "ready"
    /\ Install(switchToCustomMode(Enter(Cur, "switchToCustomMode", [a |-> device, b |-> 0]), device, sendOk))
    /\ UNCHANGED notifications

CallChangeMode(device, mode, sendOk) ==
    /\ pc = "ready"
    /\ Install(changeMode(Enter(Cur, "changeMode", [a |-> device, b |-> mode]), device, mode, sendOk))
    /\ UNCHANGED notifications

CallSaveMode(device, mode, sendOk) ==
    /\ pc = "ready"
    /\ Install(saveMode(Enter(Cur, "saveMode", [a |-> device, b |-> mode]), device, mode, sendOk))
    /\ UNCHANGED notifications

CallSetDeviceColor(device, color, sendOk) ==
    /\ pc = "ready"
    /\ Install(setDeviceColor(Enter(Cur, "setDeviceColor", [a |-> device, b |-> color]), device, color, sendOk))
    /\ UNCHANGED notifications

CallSetZoneColor(zone, color, sendOk) ==
    /\ pc = "ready"
    /\ Install(setZoneColor(Enter(Cur, "setZoneColor", [a |-> zone, b |-> color]), zone, color, sendOk))
    /\ UNCHANGED notifications

CallSetZoneSize(zone, newSize, sendOk) ==
    /\ pc = "ready"
    /\ Install(setZoneSize(Enter(Cur, "setZoneSize", [a |-> zone, b |-> newSize]), zone, newSize, sendOk))
    /\ UNCHANGED notifications

CallSetLEDColor(led, color, sendOk) ==
    /\ pc = "ready"
    /\ Install(setLEDColor(Enter(Cur, "setLEDColor", [a |-> led, b |-> color]), led, color, sendOk))
    /\ UNCHANGED notifications

CallSaveProfile(profileName, sendOk) ==
    /\ pc = "ready"
    /\ Install(saveProfile(Enter(Cur, "saveProfile", profileName), profileName, sendOk))
    /\ UNCHANGED notifications

CallLoadProfile(profileName, sendOk) ==
    /\ pc = "ready"
    /\ Install(loadProfile(Enter(Cur, "loadProfile", profileName), profileName, sendOk))
    /\ UNCHANGED notifications

CallDeleteProfile(profileName, sendOk) ==
    /\ pc = "ready"
    /\ Install(deleteProfile(Enter(Cur, "deleteProfile", profileName), profileName, sendOk))
    /\ UNCHANGED notifications

AwaitHeader(r, sendOk) ==
    /\ pc = "await_hdr"
    /\ r \in ReceiveOutcomes(TRUE)
    /\ Install(awaitHeader([Cur EXCEPT !.io = <<>>], r, sendOk))
    /\ UNCHANGED notifications

AwaitBody(r, sendOk) ==
    /\ pc = "await_body"
    /\ r \in ReceiveOutcomes(TRUE)
    /\ Install(awaitBody([Cur EXCEPT !.io = <<>>], r, sendOk))
    /\ UNCHANGED notifications

\* what the server may put into the body of its answer
ReplyValues(req) ==
    CASE req.type = "REQUEST_PROTOCOL_VERSION" -> ServerVersions
      [] req.type = "REQUEST_CONTROLLER_COUNT" -> 0..MaxDevices
      [] OTHER -> {0}

\* the caller has taken the result of the operation; the history of the call is dropped
Settle ==
    /\ pc = "done"
    /\ pc' = "ready"
    /\ call' = NoCall
    /\ ret' = NoRet
    /\ io' = <<>>
    /\ UNCHANGED <<isConnected, blockingMode, timeout, negotiatedProtocolVersion,
                   isDeviceListOutOfDate, loc, inbound, pending, peerClosed, notifications>>

\* The server answers the oldest request it holds.  A message arrives when the client
\* has read all earlier bytes: every order in which the client can read tokens is kept,
\* a new message never queues behind unread ones.
ServerReply(flavour, v) ==
    /\ pc # "done"
    /\ isConnected /\ ~peerClosed
    /\ pending # <<>>
    /\ inbound = <<>>
    /\ v \in ReplyValues(Head(pending))
    /\ inbound' = inbound \o ReplyTokens(Head(pending), flavour, v)
    /\ pending' = Tail(pending)
    /\ UNCHANGED <<isConnected, blockingMode, timeout, negotiatedProtocolVersion,
                   isDeviceListOutOfDate, pc, loc, peerClosed, notifications, call, ret, io>>

ServerDrop ==
    /\ pc # "done"
    /\ isConnected
    /\ pending # <<>>
    /\ pending' = Tail(pending)
    /\ UNCHANGED <<isConnected, blockingMode, timeout, negotiatedProtocolVersion,
                   isDeviceListOutOfDate, pc, loc, inbound, peerClosed, notifications, call, ret, io>>

ServerNotify ==
    /\ pc # "done"
    /\ isConnected /\ ~peerClosed
    /\ notifications < MaxNotifications
    /\ inbound = <<>>
    /\ notifications' = notifications + 1
    /\ inbound' = Append(inbound, DeviceListUpdated)
    /\ UNCHANGED <<isConnected, blockingMode, timeout, negotiatedProtocolVersion,
                   isDeviceListOutOfDate, pc, loc, pending, peerClosed, call, ret, io>>

ServerClose ==
    /\ pc # "done"
    /\ isConnected /\ ~peerClosed
    /\ peerClosed' = TRUE
    /\ UNCHANGED <<isConnected, blockingMode, timeout, negotiatedProtocolVersion,
                   isDeviceListOutOfDate, pc, loc, inbound, pending, notifications, call, ret, io>>

\* the arguments the caller passes
Devices == {[idx |-> 1, leds |-> 2]}
Zones == {[parentIdx |-> 1, idx |-> 0, leds_count |-> 0], [parentIdx |-> 0, idx |-> 1, leds_count |-> 2]}
LEDs == {[parentIdx |-> 1, idx |-> 2]}
Modes == {[idx |-> 1, name |-> "Static"]}
Colors == {"red", "blue"}
ProfileNames == {"night"}

ReceiveResults ==
    {[res |-> x, closes |-> FALSE] : x \in {"Success", "Timeout", "WouldBlock", "OtherError", "NotConnected"}}
    \cup {[res |-> "ConnectionClosed", closes |-> b] : b \in BOOLEAN}

Next ==
    \/ \E c \in {"Success", "AlreadyConnected", "HostNotResolved", "ConnectFailed", "OtherError"},
          sendOk \in BOOLEAN : CallConnect(c, sendOk)
    \/ \E st \in {"Success", "OtherError", "NotConnected"} : CallDisconnect(st)
    \/ \E t \in Timeouts, ok \in BOOLEAN : CallSetTimeout(t, ok)
    \/ \E sendOk \in BOOLEAN : CallRequestDeviceList(sendOk)
    \/ \E sendOk \in BOOLEAN : CallRequestDeviceCount(sendOk)
    \/ \E i \in 0..(MaxDevices - 1), sendOk \in BOOLEAN : CallRequestDeviceInfo(i, sendOk)
    \/ \E sendOk \in BOOLEAN : CallRequestProfileList(sendOk)
    \/ \E nbOk \in BOOLEAN, r \in ReceiveResults, restoreOk \in BOOLEAN :
          CallCheckForDeviceUpdates(nbOk, r, restoreOk)
    \/ \E d \in Devices, sendOk \in BOOLEAN : CallSwitchToCustomMode(d, sendOk)
    \/ \E d \in Devices, m \in Modes, sendOk \in BOOLEAN : CallChangeMode(d, m, sendOk)
    \/ \E d \in Devices, m \in Modes, sendOk \in BOOLEAN : CallSaveMode(d, m, sendOk)
    \/ \E d \in Devices, c \in Colors, sendOk \in BOOLEAN : CallSetDeviceColor(d, c, sendOk)
    \/ \E z \in Zones, c \in Colors, sendOk \in BOOLEAN : CallSetZoneColor(z, c, sendOk)
    \/ \E z \in Zones, n \in {3}, sendOk \in BOOLEAN : CallSetZoneSize(z, n, sendOk)
    \/ \E l \in LEDs, c \in Colors, sendOk \in BOOLEAN : CallSetLEDColor(l, c, sendOk)
    \/ \E n \in ProfileNames, sendOk \in BOOLEAN : CallSaveProfile(n, sendOk)
    \/ \E n \in ProfileNames, sendOk \in BOOLEAN : CallLoadProfile(n, sendOk)
    \/ \E n \in ProfileNames, sendOk \in BOOLEAN : CallDeleteProfile(n, sendOk)
    \/ Settle
    \/ \E r \in ReceiveResults, sendOk \in BOOLEAN : AwaitHeader(r, sendOk)
    \/ \E r \in ReceiveResults, sendOk \in BOOLEAN : AwaitBody(r, sendOk)
    \/ \E f \in Flavours, v \in ServerVersions \cup (0..MaxDevices) : ServerReply(f, v)
    \/ ServerDrop
    \/ ServerNotify
    \/ ServerClose

Spec == Init /\ [][Next]_vars

\* ---------------------------------------------- the well-behaved environment

SuccessfulRead == [res |-> "Success", closes |-> FALSE]

\* a blocking read returns as soon as bytes are there
ClientReads == AwaitHeader(SuccessfulRead, TRUE) \/ AwaitBody(SuccessfulRead, TRUE)

\* the server answers with a well-formed reply
ServerAnswers == \E v \in ServerVersions \cup (0..MaxDevices) : ServerReply("good", v)

\* Sends and reads succeed, every request is answered well-formed before the read
\* times out, and the server emits MaxNotifications notifications at most.
NextLive ==
    \/ \E c \in {"Success", "AlreadyConnected"} : CallConnect(c, TRUE)
    \/ \E st \in {"Success", "OtherError", "NotConnected"} : CallDisconnect(st)
    \/ CallRequestDeviceList(TRUE)
    \/ CallRequestDeviceCount(TRUE)
    \/ Settle
    \/ ClientReads
    \/ ServerAnswers
    \/ ServerNotify

\* The client's thread runs, and the server answers: both are weakly fair.
SpecLive == Init /\ [][NextLive]_vars /\ WF_vars(ClientReads) /\ WF_vars(ServerAnswers)

\* ------------------------------------------------------------------ claims

\* an operation has returned and its caller holds the result
Returned(op) == pc = "done" /\ call.op = op

\* the events of one kind among the socket calls of the client's last step
Events(kind) == {i \in DOMAIN io : io[i].call = kind}

\* a well-formed body of a message of type T
WellFormedBody(T, tok) == tok.k = "body" /\ tok.valid /\ tok.type = T

\* a well-formed header of type DEVICE_LIST_UPDATED
IsNotificationHeader(tok) == tok.k = "hdr" /\ tok.valid /\ tok.type = "DEVICE_LIST_UPDATED"

\* C1: when awaitMessage< T > has consumed k >= 1 DEVICE_LIST_UPDATED headers and then
\* reads a header of type T and a well-formed body of T, it returns Success with that
\* reply (its device index and its body) and the out-of-date flag is set.
C1_NotificationsSkipped ==
    \A i \in Events("awaitMessage") :
        (/\ io[i].skipped >= 1
         /\ io[i].header.type = io[i].expect
         /\ io[i - 1].call = "receive"
         /\ io[i - 1].res = "Success"
         /\ WellFormedBody(io[i].expect, io[i - 1].tok))
        => (/\ io[i].res = "Success"
            /\ io[i].outOfDate
            /\ io[i].dev = io[i].header.dev
            /\ io[i].val = io[i - 1].tok.val)

\* connect's awaitMessage has skipped two notifications and returned the version reply
C1_Witness ==
    /\ Returned("connect")
    /\ ret.status = "Success"
    /\ \E i \in Events("awaitMessage") : io[i].skipped = 2 /\ io[i].res = "Success"
                                         /\ io[i].val = implementedProtocolVersion - 1

\* C2: when requestDeviceList returns Success, the list holds exactly the devices of its
\* last pass (as many as the last count reply said, all received in the last pass), no
\* notification was consumed in the last pass, and the out-of-date flag is clear.
C2_LastPassOnly ==
    (Returned("requestDeviceList") /\ ret.status = "Success")
    => (/\ Len(ret.devices) = ret.count
        /\ \A i \in DOMAIN ret.devices : ret.devices[i].pass = ret.passes
        /\ ~ret.passDirty
        /\ ~isDeviceListOutOfDate)

\* a sweep that restarted returns the two devices of its second pass
C2_Witness ==
    /\ Returned("requestDeviceList")
    /\ ret.status = "Success"
    /\ ret.passes = 2
    /\ Len(ret.devices) = 2

\* C3: a requestDeviceList that returns Success has made 1 + d passes, d being the
\* number of its passes that consumed a notification.
C3_PassCount ==
    (Returned("requestDeviceList") /\ ret.status = "Success") => ret.passes = 1 + ret.dirty

\* two passes were interrupted by a notification, the third one succeeded
C3_Witness ==
    /\ Returned("requestDeviceList")
    /\ ret.status = "Success"
    /\ ret.passes = 3
    /\ ret.dirty = 2

RdlRunning == pc \in {"await_hdr", "await_body"} /\ loc.op = "requestDeviceList"

\* C4: with a well-behaved server and finitely many notifications, every
\* requestDeviceList on a connected session returns, and it returns Success after a
\* pass that consumed no notification, the out-of-date flag being clear.
C4_SweepTerminates ==
    /\ [](Returned("requestDeviceList") /\ call.wasConnected
          => ret.status = "Success" /\ ~ret.passDirty /\ ~isDeviceListOutOfDate)
    /\ (RdlRunning ~> Returned("requestDeviceList"))

\* a sweep has returned Success after MaxNotifications restarts
C4_Witness ==
    /\ Returned("requestDeviceList")
    /\ call.wasConnected
    /\ ret.status = "Success"
    /\ ret.passes = MaxNotifications + 1
    /\ notifications = MaxNotifications

\* C5: the out-of-date flag goes from set to clear only in a step of requestDeviceList
\* that starts a pass, on a session that is connected.
C5_ClearedOnlyAtPassStart ==
    [][(isDeviceListOutOfDate /\ ~isDeviceListOutOfDate')
       => (/\ isConnected
           /\ call'.op = "requestDeviceList"
           /\ \E i \in DOMAIN io' : io'[i].call = "sweepPass")]_vars

\* the first pass of a sweep has just cleared the flag
C5_Witness ==
    /\ pc = "await_hdr"
    /\ call.op = "requestDeviceList"
    /\ call.wasOutOfDate
    /\ ~isDeviceListOutOfDate
    /\ Events("sweepPass") # {}

\* the non-blocking read of checkForDeviceUpdates has consumed a notification header
NotificationConsumedByCheck ==
    /\ Returned("checkForDeviceUpdates")
    /\ \E i \in Events("receive") : io[i].res = "Success" /\ IsNotificationHeader(io[i].tok)

\* C6: when checkForDeviceUpdates has consumed a DEVICE_LIST_UPDATED header, the
\* out-of-date flag is set when it returns, whatever status it returns.
C6_NotificationNeverDropped == NotificationConsumedByCheck => isDeviceListOutOfDate

\* on a connected session with the flag clear checkForDeviceUpdates has read a notification
\* header, could not restore blocking mode, and has returned with the flag still clear
C6_Dropped ==
    /\ NotificationConsumedByCheck
    /\ call.wasConnected
    /\ ~call.wasOutOfDate
    /\ ret.status = "CantRestoreSocket"
    /\ ~isConnected
    /\ ~isDeviceListOutOfDate

\* C7: called with the out-of-date flag set, checkForDeviceUpdates returns OutOfDate and
\* makes no socket call: the mode, the connection and the unread bytes stay as they
\* were, and the flag stays set.
C7_NoSocketCallWhenOutOfDate ==
    [][(pc = "ready" /\ isDeviceListOutOfDate /\ call'.op = "checkForDeviceUpdates")
       => (/\ ret'.status = "OutOfDate"
           /\ io' = <<>>
           /\ inbound' = inbound
           /\ blockingMode' = blockingMode
           /\ isConnected' = isConnected
           /\ isDeviceListOutOfDate')]_vars

\* OutOfDate was returned from the flag while a message was waiting in the socket
C7_Witness ==
    /\ Returned("checkForDeviceUpdates")
    /\ call.wasOutOfDate
    /\ ret.status = "OutOfDate"
    /\ isConnected
    /\ inbound # <<>>

\* C8: after checkForDeviceUpdates has returned anything but CantRestoreSocket, the
\* socket is not in non-blocking mode: an open socket is in blocking mode.
C8_BlockingAfterCheck ==
    (Returned("checkForDeviceUpdates") /\ ret.status # "CantRestoreSocket")
    => (blockingMode # "nonblocking" /\ (isConnected => blockingMode = "blocking"))

\* a check that went to non-blocking mode and read a message has returned
C8_Witness ==
    /\ Returned("checkForDeviceUpdates")
    /\ ret.status = "UnexpectedMessage"
    /\ blockingMode = "blocking"
    /\ Len(io) = 3

\* C9: at every operation boundary the socket of a connected session is in blocking
\* mode, and after CantRestoreSocket the session is disconnected.
C9_ConnectedIsBlocking ==
    /\ (pc \in {"ready", "done"} /\ isConnected) => blockingMode = "blocking"
    /\ (Returned("checkForDeviceUpdates") /\ ret.status = "CantRestoreSocket") => ~isConnected

\* a connected session's check could not restore blocking mode
C9_Witness ==
    /\ Returned("checkForDeviceUpdates")
    /\ call.wasConnected
    /\ ret.status = "CantRestoreSocket"
    /\ \E i \in Events("setBlockingMode") : io[i].enable /\ io[i].res = "Error"
    /\ \E i \in Events("disconnect") : io[i].res = "Success"

\* the statuses of checkForDeviceUpdates
UpdateStatuses == {"UpToDate", "OutOfDate", "ConnectionClosed", "UnexpectedMessage",
                   "CantRestoreSocket", "OtherSystemError"}

\* the statuses the claimed mapping allows for the single non-blocking read; it says
\* nothing about bytes that are not a valid header
ExpectedCheckStatus(read) ==
    IF read.res = "WouldBlock" THEN {"UpToDate"}
    ELSE IF read.res = "ConnectionClosed" THEN {"ConnectionClosed"}
    ELSE IF read.res # "Success" THEN {"OtherSystemError"}
    ELSE IF IsNotificationHeader(read.tok) THEN {"OutOfDate"}
    ELSE IF read.tok.k = "hdr" /\ read.tok.valid THEN {"UnexpectedMessage"}
    ELSE UpdateStatuses

\* C10: called with the flag clear, checkForDeviceUpdates returns OtherSystemError
\* without a read when it cannot switch to non-blocking mode; otherwise it reads once
\* and, blocking mode restored, returns the status mapped from the read: WouldBlock
\* UpToDate (flag clear), ConnectionClosed ConnectionClosed, another failure
\* OtherSystemError, a DEVICE_LIST_UPDATED header OutOfDate (flag set), another valid
\* header UnexpectedMessage.
C10_CheckOutcome ==
    (Returned("checkForDeviceUpdates") /\ ~call.wasOutOfDate)
    => (/\ io[1].call = "setBlockingMode" /\ ~io[1].enable
        /\ io[1].res # "Success" => (ret.status = "OtherSystemError" /\ Len(io) = 1)
        /\ io[1].res = "Success" =>
              (/\ Cardinality(Events("receive")) = 1
               /\ io[2].call = "receive"
               /\ io[3].call = "setBlockingMode" /\ io[3].enable
               /\ io[3].res = "Success" =>
                     (/\ ret.status \in ExpectedCheckStatus(io[2])
                      /\ ret.status = "UpToDate" => ~isDeviceListOutOfDate
                      /\ ret.status = "OutOfDate" => isDeviceListOutOfDate)))

\* the peer had closed, the read said so, and blocking mode was restored
C10_Witness ==
    /\ Returned("checkForDeviceUpdates")
    /\ ~call.wasOutOfDate
    /\ ret.status = "ConnectionClosed"
    /\ Len(io) = 3
    /\ io[3].res = "Success"

\* the operations that send a request and wait for its reply
RequestOps == {"requestDeviceList", "requestDeviceCount", "requestDeviceInfo", "requestProfileList"}

\* the operations that send one message and wait for nothing
MutatingOps == {"switchToCustomMode", "changeMode", "saveMode", "setDeviceColor", "setZoneColor",
                "setZoneSize", "setLEDColor", "saveProfile", "loadProfile", "deleteProfile"}

\* C11: every request operation, every mutating operation and checkForDeviceUpdates,
\* called on a disconnected session, returns NotConnected and makes no socket call.
C11_DisconnectedIsNotConnected ==
    (/\ pc = "done"
     /\ call.op \in RequestOps \cup MutatingOps \cup {"checkForDeviceUpdates"}
     /\ ~call.wasConnected)
    => (ret.status = "NotConnected" /\ io = <<>>)

\* checkForDeviceUpdates on a client that was never connected has returned OutOfDate
C11_CheckOnNeverConnected ==
    /\ Returned("checkForDeviceUpdates")
    /\ ~call.wasConnected
    /\ negotiatedProtocolVersion = 0
    /\ ret.status = "OutOfDate"

\* the part of C11 that the code keeps: the request and the mutating operations
C11_RequestsOnDisconnected ==
    (pc = "done" /\ call.op \in RequestOps \cup MutatingOps /\ ~call.wasConnected)
    => (ret.status = "NotConnected" /\ io = <<>>)

\* the events of one kind in a log of socket calls
EventsIn(log, kind) == {i \in DOMAIN log : log[i].call = kind}

IsSend(e) == e.call = "send"

\* the send calls of a log, in order
Sent(log) == SelectSeq(log, IsSend)

\* a step of the client inside an operation (the server's steps leave pc and loc alone)
ClientStep == pc' # pc \/ loc' # loc

\* the returns of awaitMessage with a version reply of version 1 or more
VersionReplyIn(log) ==
    {i \in EventsIn(log, "awaitMessage") : log[i].res = "Success" /\ log[i].val >= 1}

\* C12: a connect on a disconnected session sends REQUEST_PROTOCOL_VERSION with the
\* implemented version right after the TCP connect and nothing else before the version
\* reply is received; having received a version >= 1 it sends SET_CLIENT_NAME, once,
\* after the reply, and nothing else; and if that send succeeds it returns Success with
\* the session connected and the out-of-date flag set.
C12_Handshake ==
    [][/\ (pc = "ready" /\ ~isConnected /\ call'.op = "connect" /\ io'[1].res = "Success")
          => (/\ Len(Sent(io')) = 1
              /\ Sent(io')[1].frame = RequestProtocolVersion(implementedProtocolVersion))
       /\ (pc \in {"await_hdr", "await_body"} /\ loc.op = "connect" /\ ClientStep)
          => IF VersionReplyIn(io') = {} THEN Sent(io') = <<>>
             ELSE /\ Len(Sent(io')) = 1
                  /\ Sent(io')[1].frame = SetClientName(clientName)
                  /\ \A i \in VersionReplyIn(io'), j \in EventsIn(io', "send") : i < j
                  /\ Sent(io')[1].res = "Success"
                     => (/\ pc' = "done"
                         /\ ret'.status = "Success"
                         /\ isConnected'
                         /\ isDeviceListOutOfDate')]_vars

\* a connect made with the flag clear has returned Success and the flag is set
C12_Witness ==
    /\ Returned("connect")
    /\ ~call.wasConnected
    /\ ~call.wasOutOfDate
    /\ ret.status = "Success"
    /\ isConnected
    /\ isDeviceListOutOfDate
    /\ Len(Sent(io)) = 1

\* C13: a connect that returns anything but Success or AlreadyConnected leaves the
\* session disconnected, at whichever step it failed.
C13_FailedConnectDisconnects ==
    (Returned("connect") /\ ret.status \notin {"Success", "AlreadyConnected"}) => ~isConnected

\* the client name could not be sent and the socket, connected by then, was closed
C13_Witness ==
    /\ Returned("connect")
    /\ ret.status = "SendNameFailed"
    /\ ~isConnected
    /\ \E i \in Events("disconnect") : io[i].res = "Success"

\* C14: when the version reply carries version 0, connect returns VersionNotSupported,
\* sends no SET_CLIENT_NAME (nothing at all after the reply) and the session is
\* disconnected.
C14_VersionZeroRejected ==
    (/\ call.op = "connect"
     /\ \E i \in Events("awaitMessage") : io[i].res = "Success" /\ io[i].val = 0)
    => (/\ pc = "done"
        /\ ret.status = "VersionNotSupported"
        /\ Sent(io) = <<>>
        /\ ~isConnected)

\* the server answered the version request with version 0
C14_Witness ==
    /\ Returned("connect")
    /\ ret.status = "VersionNotSupported"
    /\ \E i \in Events("awaitMessage") : io[i].res = "Success" /\ io[i].val = 0
    /\ \E i \in Events("disconnect") : io[i].res = "Success"

\* connect returns Success in this step
ConnectSucceeds == pc # "done" /\ pc' = "done" /\ call'.op = "connect" /\ ret'.status = "Success"

\* C15: at every operation boundary of a connected session the negotiated version lies
\* in 1..implementedProtocolVersion; a connect that succeeds leaves it at the smaller of
\* the implemented version and the version of the reply it received; and no step of any
\* other operation changes it, so it keeps that value while the connection lasts.
C15_NegotiatedVersion ==
    /\ []((pc \in {"ready", "done"} /\ isConnected)
          => negotiatedProtocolVersion \in 1..implementedProtocolVersion)
    /\ [][/\ ConnectSucceeds
             => \E i \in VersionReplyIn(io') :
                   negotiatedProtocolVersion' = IF io'[i].val < implementedProtocolVersion
                                                THEN io'[i].val ELSE implementedProtocolVersion
          /\ negotiatedProtocolVersion' # negotiatedProtocolVersion
             => (loc.op = "connect" /\ VersionReplyIn(io') # {})]_vars

\* a server newer than the client: the session runs the client's version
C15_Witness ==
    /\ Returned("connect")
    /\ ret.status = "Success"
    /\ isConnected
    /\ \E i \in Events("awaitMessage") : io[i].val = implementedProtocolVersion + 1
    /\ negotiatedProtocolVersion = implementedProtocolVersion

\* C16: disconnect leaves the session disconnected; on a connected session it returns
\* true; on a disconnected one (after a disconnect, or never connected) it returns
\* false and changes nothing.
C16_DisconnectIdempotent ==
    [][(pc = "ready" /\ call'.op = "disconnect")
       => (/\ ~isConnected'
           /\ ret'.status = IF isConnected THEN "true" ELSE "false"
           /\ ~isConnected => UNCHANGED <<blockingMode, timeout, negotiatedProtocolVersion,
                                          isDeviceListOutOfDate, inbound, pending, peerClosed>>)]_vars

\* a session that had been connected and disconnected is disconnected once more
C16_Witness ==
    /\ Returned("disconnect")
    /\ ~call.wasConnected
    /\ negotiatedProtocolVersion >= 1
    /\ ret.status = "false"
    /\ ~isConnected

\* C17: a mutating operation on a connected session makes one socket call, the send of
\* one frame, and no receive; it leaves the out-of-date flag and the connection as they
\* were; it returns Success if the send succeeded and SendRequestFailed if not.
C17_MutatingSendsOnce ==
    [][(pc = "ready" /\ isConnected /\ call'.op \in MutatingOps)
       => (/\ pc' = "done"
           /\ Len(io') = 1
           /\ io'[1].call = "send"
           /\ ret'.status = IF io'[1].res = "Success" THEN "Success" ELSE "SendRequestFailed"
           /\ isConnected'
           /\ isDeviceListOutOfDate' = isDeviceListOutOfDate
           /\ inbound' = inbound)]_vars

\* the send of a RESIZE_ZONE failed on a connected session
C17_Witness ==
    /\ Returned("setZoneSize")
    /\ call.wasConnected
    /\ ret.status = "SendRequestFailed"
    /\ isConnected
    /\ Len(io) = 1

\* C18: setDeviceColor sends UPDATE_LEDS to device.idx with device.leds.size() colors,
\* setZoneColor sends UPDATE_ZONE_LEDS to zone.parentIdx for zone.idx with
\* zone.leds_count colors (none when the count is 0); every color is the one passed.
C18_ColorExpansion ==
    /\ (Returned("setDeviceColor") /\ call.wasConnected)
       => (/\ io[1].frame.type = "UPDATE_LEDS"
           /\ io[1].frame.dev = call.arg.a.idx
           /\ Len(io[1].frame.colors) = call.arg.a.leds
           /\ \A i \in DOMAIN io[1].frame.colors : io[1].frame.colors[i] = call.arg.b)
    /\ (Returned("setZoneColor") /\ call.wasConnected)
       => (/\ io[1].frame.type = "UPDATE_ZONE_LEDS"
           /\ io[1].frame.dev = call.arg.a.parentIdx
           /\ io[1].frame.idx = call.arg.a.idx
           /\ Len(io[1].frame.colors) = call.arg.a.leds_count
           /\ \A i \in DOMAIN io[1].frame.colors : io[1].frame.colors[i] = call.arg.b)

\* a zone without LEDs was colored: the frame carries an empty color sequence
C18_Witness ==
    /\ Returned("setZoneColor")
    /\ call.wasConnected
    /\ call.arg.a.leds_count = 0
    /\ io[1].frame.type = "UPDATE_ZONE_LEDS"
    /\ io[1].frame.colors = <<>>


\* the message type each profile operation is documented to send
ProfileMessageType(op) ==
    CASE op = "saveProfile" -> "REQUEST_SAVE_PROFILE"
      [] op = "loadProfile" -> "REQUEST_LOAD_PROFILE"
      [] op = "deleteProfile" -> "REQUEST_DELETE_PROFILE"

\* C19: saveProfile, loadProfile and deleteProfile on a connected session each send one
\* frame of their own message type carrying the profile name: REQUEST_SAVE_PROFILE,
\* REQUEST_LOAD_PROFILE and REQUEST_DELETE_PROFILE; deleteProfile's frame is never a
\* REQUEST_LOAD_PROFILE.
C19_ProfileOwnType ==
    \A op \in {"saveProfile", "loadProfile", "deleteProfile"} :
        (Returned(op) /\ call.wasConnected)
        => (/\ Len(io) = 1
            /\ io[1].call = "send"
            /\ io[1].frame.type = ProfileMessageType(op)
            /\ io[1].frame.name = call.arg)

\* deleteProfile on a connected session has sent a REQUEST_LOAD_PROFILE with the name
\* of the profile to delete, and returned Success
C19_DeleteSendsLoad ==
    /\ Returned("deleteProfile")
    /\ call.wasConnected
    /\ ret.status = "Success"
    /\ io[1].call = "send"
    /\ io[1].frame.type = "REQUEST_LOAD_PROFILE"
    /\ io[1].frame.name = call.arg

\* the receive calls of the client's last step that timed out
TimedOutReceives == {i \in Events("receive") : io[i].res = "Timeout"}

\* C20: when a receive of a request operation (requestDeviceList, requestDeviceCount,
\* requestDeviceInfo, requestProfileList) times out, awaitMessage gives NoReply, the
\* operation returns NoReply in that step, the client does not call disconnect and the
\* session is still connected; when it is requestDeviceList waiting for the
\* REPLY_CONTROLLER_COUNT, the returned device list is empty.
C20_TimeoutIsNoReply ==
    (call.op \in RequestOps /\ TimedOutReceives # {})
    => (/\ pc = "done"
        /\ ret.status = "NoReply"
        /\ \A i \in Events("awaitMessage") : io[i].res = "NoReply"
        /\ Events("awaitMessage") # {}
        /\ Events("disconnect") = {}
        /\ isConnected
        /\ (call.op = "requestDeviceList"
            /\ \E i \in Events("awaitMessage") : io[i].expect = "REPLY_CONTROLLER_COUNT")
           => ret.devices = <<>>)

\* requestDeviceList on a connected session got no answer to REQUEST_CONTROLLER_COUNT
C20_Witness ==
    /\ Returned("requestDeviceList")
    /\ call.wasConnected
    /\ TimedOutReceives # {}
    /\ \E i \in Events("awaitMessage") : io[i].expect = "REPLY_CONTROLLER_COUNT"
    /\ ret.status = "NoReply"
    /\ ret.devices = <<>>
    /\ isConnected


\* the returns of awaitMessage with Success in the client's last step
Accepted == {i \in Events("awaitMessage") : io[i].res = "Success"}

\* C21: every reply a request operation accepts with Success answers the newest
\* request the client has sent, the one this exchange sent: neither its header nor its
\* body are bytes the server sent in answer to an earlier request.
C21_ReplyMatchesRequest ==
    call.op \in RequestOps
    => \A i \in Accepted : ~io[i].header.stale /\ ~io[i - 1].tok.stale

\* requestDeviceInfo( 1 ) has returned Success with the description of device 0: the
\* reply to an earlier REQUEST_CONTROLLER_DATA( 0 ), unread when this request was sent
C21_StaleReplyAccepted ==
    /\ Returned("requestDeviceInfo")
    /\ call.arg = 1
    /\ ret.status = "Success"
    /\ ret.devices[1].idx = 0
    /\ \E i \in Accepted : io[i].header.stale /\ io[i - 1].tok.stale


\* the TCP connect of a connect call succeeds in this step
TcpConnects ==
    /\ pc = "ready"
    /\ call'.op = "connect"
    /\ \E i \in EventsIn(io', "connect") : io'[i].res = "Success"

AcceptedIn(log) == {i \in EventsIn(log, "awaitMessage") : log[i].res = "Success"}

\* a step of the sweep that accepts a reply in a pass that has consumed a notification
DirtyExchangeDone ==
    /\ loc.op = "requestDeviceList"
    /\ loc.passDirty
    /\ ClientStep
    /\ AcceptedIn(io') # {}

\* the index the for-loop of the sweep turns to after the reply the client waits for
NextIdx == IF loc.stage = "count" THEN 0 ELSE loc.deviceIdx + 1

\* C23 as stated: once a pass of requestDeviceList has consumed a DEVICE_LIST_UPDATED,
\* every message the client sends next is a REQUEST_CONTROLLER_COUNT, never a further
\* REQUEST_CONTROLLER_DATA of the interrupted pass.
C23_RestartAtOnce ==
    [][(loc.op = "requestDeviceList" /\ loc.passDirty /\ ClientStep)
       => \A i \in EventsIn(io', "send") : io'[i].frame.type = "REQUEST_CONTROLLER_COUNT"]_vars

\* C23 amended: once a pass of requestDeviceList has consumed a DEVICE_LIST_UPDATED, the
\* client completes the pass before it restarts: after each reply it accepts it sends
\* the REQUEST_CONTROLLER_DATA of the next index while there is one below the count of
\* this pass, and only after the last one it starts a new pass, with an empty list, the
\* flag cleared and a REQUEST_CONTROLLER_COUNT; it does not return Success from such a
\* pass, and a Success has as many devices as the count of the last pass, which
\* consumed no notification.
C23_RestartAfterPass ==
    /\ []((Returned("requestDeviceList") /\ ret.status = "Success")
          => (~ret.passDirty /\ Len(ret.devices) = ret.count
              /\ \A i \in DOMAIN ret.devices : ret.devices[i].pass = ret.passes))
    /\ [][DirtyExchangeDone
       => LET a == CHOOSE i \in AcceptedIn(io') : TRUE
              c == IF loc.stage = "count" THEN io'[a].val ELSE loc.count
          IN  /\ Len(Sent(io')) = 1
              /\ pc' = "done" => ret'.status = "SendRequestFailed"
              /\ IF NextIdx < c
                 THEN /\ Sent(io')[1].frame = RequestControllerData(NextIdx, negotiatedProtocolVersion)
                      /\ EventsIn(io', "sweepPass") = {}
                      /\ pc' # "done" => (loc'.passDirty /\ isDeviceListOutOfDate'
                                          /\ Len(loc'.devices) = NextIdx)
                 ELSE /\ Sent(io')[1].frame = RequestControllerCount
                      /\ EventsIn(io', "sweepPass") # {}
                      /\ pc' # "done" => (~loc'.passDirty /\ ~isDeviceListOutOfDate'
                                          /\ loc'.devices = <<>>)]_vars

\* the sweep has consumed a notification in this pass, has then accepted a reply, and
\* has gone on to request the next device of the same pass
C23_Witness ==
    /\ pc = "await_hdr"
    /\ loc.op = "requestDeviceList"
    /\ loc.passDirty
    /\ isDeviceListOutOfDate
    /\ Accepted # {}
    /\ Sent(io) # <<>>
    /\ Sent(io)[1].frame.type = "REQUEST_CONTROLLER_DATA"


\* a step of the client inside a running requestDeviceList
SweepStep == loc.op = "requestDeviceList" /\ ClientStep

\* the list of the sweep after the step: the result if the step returned
DevicesAfter == IF pc' = "done" THEN ret'.devices ELSE loc'.devices

\* C24: in each pass of requestDeviceList the client, after the count reply c, sends
\* REQUEST_CONTROLLER_DATA for the indices 0, 1, .., c-1 in this order, each with the
\* negotiated version and each in the step in which the reply of the exchange before it
\* was accepted (the count reply for index 0); the reply accepted in the exchange for
\* index i is stored at position i of the list; and a Success has exactly c devices, c
\* being the count of the last pass.
C24_DataRequestsInOrder ==
    /\ []((loc.op = "requestDeviceList" /\ loc.stage = "data")
          => (loc.deviceIdx < loc.count /\ Len(loc.devices) = loc.deviceIdx))
    /\ []((Returned("requestDeviceList") /\ ret.status = "Success")
          => Len(ret.devices) = ret.count)
    /\ [][SweepStep
          => /\ \A i \in EventsIn(io', "send") :
                   io'[i].frame.type = "REQUEST_CONTROLLER_DATA"
                   => (/\ AcceptedIn(io') # {}
                       /\ EventsIn(io', "sweepPass") = {}
                       /\ io'[i].frame = RequestControllerData(NextIdx, negotiatedProtocolVersion)
                       /\ Len(Sent(io')) = 1)
             /\ \A a \in AcceptedIn(io') :
                   LET c == IF loc.stage = "count" THEN io'[a].val ELSE loc.count
                   IN  /\ NextIdx < c => (/\ Sent(io') # <<>>
                                          /\ Sent(io')[1].frame.type = "REQUEST_CONTROLLER_DATA")
                       /\ (loc.stage = "data" /\ EventsIn(io', "sweepPass") = {})
                          => (/\ Len(DevicesAfter) = loc.deviceIdx + 1
                              /\ DevicesAfter[loc.deviceIdx + 1].idx = io'[a].dev
                              /\ \A j \in 1..loc.deviceIdx : DevicesAfter[j] = loc.devices[j])]_vars

\* a sweep returned Success with MaxDevices devices, in the order of their indices
C24_Witness ==
    /\ Returned("requestDeviceList")
    /\ ret.status = "Success"
    /\ ret.count = MaxDevices
    /\ Len(ret.devices) = MaxDevices
    /\ \A i \in 1..MaxDevices : ret.devices[i].idx = i - 1


\* bytes of a reply: any token that is not a DEVICE_LIST_UPDATED header
IsReplyToken(tok) == tok.type # "DEVICE_LIST_UPDATED"

\* the reply-expecting requests the client has sent in its last step
RequestSends ==
    {i \in Events("send") : io[i].res = "Success" /\ io[i].frame.type \in ReplyExpecting}

\* C25: when the client sends a reply-expecting request, no earlier one of the same
\* connection is unanswered: the server holds no request of this client it has still to
\* answer, and no bytes of a reply are unread in the inbound stream.
C25_OneOutstanding ==
    \A i \in RequestSends :
        /\ io[i].unanswered = <<>>
        /\ \A j \in DOMAIN io[i].unread : ~IsReplyToken(io[i].unread[j])

\* requestDeviceCount has sent its REQUEST_CONTROLLER_COUNT while the server still held
\* the request of an earlier operation, which had returned without its reply
C25_TwoOutstanding ==
    /\ pc = "await_hdr"
    /\ call.op = "requestDeviceCount"
    /\ isConnected
    /\ \E i \in RequestSends : io[i].res = "Success" /\ io[i].unanswered # <<>>


\* the device index of the REQUEST_CONTROLLER_DATA the running exchange has sent
RequestedIdx == IF loc.op = "requestDeviceInfo" THEN call.arg ELSE loc.deviceIdx

\* C26: an exchange for device index i, of requestDeviceInfo( i ) or of the sweep,
\* accepts a REPLY_CONTROLLER_DATA only if the device index of its header is i.
C26_ReplyIndexMatches ==
    [][(/\ loc.op \in {"requestDeviceInfo", "requestDeviceList"}
        /\ loc.stage = "data"
        /\ ClientStep)
       => \A a \in AcceptedIn(io') : io'[a].dev = RequestedIdx]_vars

\* requestDeviceInfo( 0 ) has returned Success with a reply that answers this very
\* request and whose header carries device index 1
C26_WrongIndexAccepted ==
    /\ Returned("requestDeviceInfo")
    /\ call.arg = 0
    /\ ret.status = "Success"
    /\ ret.devices[1].idx = 1
    /\ \E a \in Accepted : io[a].dev = 1 /\ ~io[a].header.stale


\* the header read of a request operation's awaitMessage finds a token that is no
\* header of the expected type and no notification: bytes that fail the header's
\* validation, or a valid header of another type
RejectedHeader ==
    /\ pc = "await_hdr"
    /\ loc.op \in RequestOps
    /\ ClientStep
    /\ \E i \in EventsIn(io', "receive") : io'[i].res = "Success"
    /\ LET tok == Head(inbound)
       IN  \/ tok.k # "hdr"
           \/ ~tok.valid
           \/ tok.type \notin {"DEVICE_LIST_UPDATED", loc.expect}

\* C27: when the header that awaitMessage< T > of a request operation reads fails the
\* validation or has a type that is neither DEVICE_LIST_UPDATED nor T, the operation
\* returns InvalidReply in that step: that header is the only thing read, the bytes
\* behind it (the message's body, if it has one) stay in the inbound stream, nothing
\* is sent and the session stays connected.
C27_InvalidReplyLeavesBody ==
    [][RejectedHeader
       => (/\ pc' = "done"
           /\ ret'.status = "InvalidReply"
           /\ Len(io') = 2
           /\ io'[1].call = "receive" /\ io'[1].tok = Head(inbound)
           /\ io'[2].call = "awaitMessage" /\ io'[2].res = "InvalidReply"
           /\ inbound' = Tail(inbound)
           /\ isConnected' /\ blockingMode' = blockingMode
           /\ isDeviceListOutOfDate' = isDeviceListOutOfDate)]_vars

\* requestDeviceCount read a valid header of another type, after skipping a
\* notification, and returned InvalidReply; the body of that message is the next thing
\* in the stream
C27_Witness ==
    /\ Returned("requestDeviceCount")
    /\ ret.status = "InvalidReply"
    /\ isConnected
    /\ io[1].call = "receive" /\ io[1].tok.k = "hdr" /\ io[1].tok.valid
    /\ io[1].tok.type = "REPLY_PROFILE_LIST"
    /\ io[2].skipped >= 1
    /\ inbound # <<>>
    /\ Head(inbound).k = "body" /\ Head(inbound).type = "REPLY_PROFILE_LIST"

\* the awaitMessage events of the last step whose receive was the body's
BodyReturns == {i \in Events("awaitMessage") : io[i].header.type # "none"}

\* C28: awaitMessage gives a receive that failed, the header's or the body's,
\* ConnectionClosed for ConnectionClosed, NoReply for Timeout and ReceiveError for every
\* other socket error; it gives Success only after a header of the expected type and
\* a body that was received and decodes as the expected message; a body that was
\* received and does not decode gives InvalidReply.
C28_AwaitMessageStatus ==
    \A i \in Events("awaitMessage") :
        LET rcv == io[i - 1]
        IN  /\ rcv.call = "receive"
            /\ rcv.res # "Success"
               => io[i].res = (CASE rcv.res = "ConnectionClosed" -> "ConnectionClosed"
                                 [] rcv.res = "Timeout" -> "NoReply"
                                 [] OTHER -> "ReceiveError")
            /\ io[i].res = "Success"
               <=> (/\ i \in BodyReturns
                    /\ io[i].header.type = io[i].expect
                    /\ rcv.res = "Success"
                    /\ WellFormedBody(io[i].expect, rcv.tok))
            /\ (i \in BodyReturns /\ rcv.res = "Success" /\ ~WellFormedBody(io[i].expect, rcv.tok))
               => io[i].res = "InvalidReply"

\* the header of the expected type was read, and the body's bytes did not decode
C28_Witness ==
    /\ pc = "done"
    /\ call.op \in RequestOps
    /\ ret.status = "InvalidReply"
    /\ \E i \in BodyReturns :
          /\ io[i].res = "InvalidReply"
          /\ io[i - 1].res = "Success"
          /\ io[i - 1].tok.k = "body" /\ ~io[i - 1].tok.valid


\* checkForDeviceUpdates returns UnexpectedMessage in this step
ReturnsUnexpectedMessage ==
    /\ pc = "ready"
    /\ call'.op = "checkForDeviceUpdates"
    /\ ret'.status = "UnexpectedMessage"

\* C29: when checkForDeviceUpdates returns UnexpectedMessage, its one receive has taken
\* the first 16 bytes of the inbound stream, which are not a valid DEVICE_LIST_UPDATED
\* header, and nothing more, so that the stream now starts with what followed them (the
\* body of that message, if it has one); the out-of-date flag is unchanged, and the
\* session is connected and in blocking mode.
C29_UnexpectedMessageConsumesHeader ==
    [][ReturnsUnexpectedMessage
       => (/\ inbound # <<>>
           /\ ~IsNotificationHeader(Head(inbound))
           /\ inbound' = Tail(inbound)
           /\ \E i \in EventsIn(io', "receive") :
                 /\ io'[i].res = "Success" /\ io'[i].tok = Head(inbound)
                 /\ EventsIn(io', "receive") = {i}
           /\ isDeviceListOutOfDate' = isDeviceListOutOfDate
           /\ ~isDeviceListOutOfDate'
           /\ isConnected'
           /\ blockingMode' = "blocking"
           /\ pc' = "done")]_vars

\* the check took the header of a late reply; its body is what the next read will get
C29_Witness ==
    /\ Returned("checkForDeviceUpdates")
    /\ ret.status = "UnexpectedMessage"
    /\ \E i \in Events("receive") : io[i].tok.k = "hdr" /\ io[i].tok.valid
                                     /\ io[i].tok.type = "REPLY_CONTROLLER_COUNT"
    /\ inbound # <<>>
    /\ Head(inbound).k = "body" /\ Head(inbound).type = "REPLY_CONTROLLER_COUNT"
    /\ isConnected
    /\ ~isDeviceListOutOfDate


\* a socket call that failed, or an awaitMessage that returned a failure; WouldBlock is
\* the regular answer of the non-blocking read of checkForDeviceUpdates
IsFailure(e) ==
    \/ e.call = "send" /\ e.res # "Success"
    \/ e.call = "receive" /\ e.res \notin {"Success", "WouldBlock"}
    \/ e.call = "awaitMessage" /\ e.res # "Success"

FailuresIn(log) == {i \in DOMAIN log : IsFailure(log[i])}

\* the statuses with which an operation reports that it did what it was asked to
GoodStatuses == {"Success", "true", "UpToDate", "OutOfDate"}

\* a later pass of the sweep begins in the step that produced this log
RestartsIn(log) == {i \in EventsIn(log, "sweepPass") : i > 1}

\* C30: when a send or a receive fails inside an operation, or awaitMessage returns a
\* failure, the operation returns in that same step with a failure status (the status
\* of awaitMessage, or SendRequestFailed, for a request or mutating operation); after
\* the failure the client sends nothing and receives nothing, also when a notification
\* has set the out-of-date flag during the sweep; and a sweep begins a further pass
\* only in the step that accepted the last reply of a pass, without any failure.
C30_NoRetry ==
    [][/\ (ClientStep /\ FailuresIn(io') # {})
          => (/\ pc' = "done"
              /\ ret'.status \notin GoodStatuses
              /\ \A f \in FailuresIn(io') : \A j \in DOMAIN io' :
                    j > f => io'[j].call \notin {"send", "receive", "sweepPass", "connect"}
              /\ call'.op \in RequestOps \cup MutatingOps
                 => ret'.status = (IF \E f \in FailuresIn(io') : io'[f].call = "send"
                                   THEN "SendRequestFailed"
                                   ELSE io'[Len(io')].res))
       /\ (ClientStep /\ RestartsIn(io') # {})
          => (/\ loc.op = "requestDeviceList"
              /\ \A r \in RestartsIn(io') :
                    /\ \E a \in AcceptedIn(io') : a < r
                    /\ \A f \in FailuresIn(io') : f > r
              /\ \A a \in AcceptedIn(io') :
                    NextIdx >= (IF loc.stage = "count" THEN io'[a].val ELSE loc.count))]_vars

\* a sweep whose pass had consumed a notification returned the failure of a receive:
\* the flag is set, nothing was sent after the failure
C30_Witness ==
    /\ Returned("requestDeviceList")
    /\ ret.passDirty
    /\ isDeviceListOutOfDate
    /\ isConnected
    /\ ret.status = "NoReply"
    /\ Sent(io) = <<>>
    /\ FailuresIn(io) # {}


\* C31: whenever requestDeviceList returns a status other than Success, the device list
\* of the result is empty, at whichever exchange of the sweep the failure occurred.
C31_FailureListEmpty ==
    (Returned("requestDeviceList") /\ ret.status # "Success") => ret.devices = <<>>

\* a sweep has accepted the reply for device 0, its next read timed out, and it has
\* returned NoReply together with the device it had accumulated
C31_PartialListExposed ==
    /\ Returned("requestDeviceList")
    /\ ret.status = "NoReply"
    /\ ret.count >= 2
    /\ Len(ret.devices) = 1
    /\ ret.devices[1].idx = 0
    /\ \E i \in Events("awaitMessage") : io[i].expect = "REPLY_CONTROLLER_DATA"


\* C32: when a request operation or checkForDeviceUpdates has returned
\* ConnectionClosed, the session is disconnected: isConnected is false, so that every
\* following operation returns NotConnected until connect is called.
C32_ClosedMeansDisconnected ==
    (/\ pc = "done"
     /\ call.op \in RequestOps \cup {"checkForDeviceUpdates"}
     /\ ret.status = "ConnectionClosed")
    => ~isConnected

\* checkForDeviceUpdates has returned ConnectionClosed after it had put the socket back
\* into blocking mode: the socket is open and the session counts as connected
C32_StillConnected ==
    /\ Returned("checkForDeviceUpdates")
    /\ ret.status = "ConnectionClosed"
    /\ \E i \in Events("receive") : io[i].res = "ConnectionClosed"
    /\ Events("disconnect") = {}
    /\ isConnected
    /\ blockingMode = "blocking"


\* C33: setLEDColor( led, c ) on a connected session makes one socket call, the send of
\* one frame of type UPDATE_SINGLE_LED with led.parentIdx as the header's device index
\* and led.idx and the one color c in the body; it returns in the same step, Success if
\* the send succeeded, without a receive.
C33_SetLEDColorFrame ==
    [][(pc = "ready" /\ isConnected /\ call'.op = "setLEDColor")
       => (/\ pc' = "done"
           /\ Len(io') = 1
           /\ io'[1].call = "send"
           /\ io'[1].frame.type = "UPDATE_SINGLE_LED"
           /\ io'[1].frame.dev = call'.arg.a.parentIdx
           /\ io'[1].frame.idx = call'.arg.a.idx
           /\ io'[1].frame.colors = <<call'.arg.b>>
           /\ io'[1].res = "Success" => ret'.status = "Success"
           /\ inbound' = inbound)]_vars

\* setLEDColor returned Success while bytes from the server were waiting unread
C33_Witness ==
    /\ Returned("setLEDColor")
    /\ call.wasConnected
    /\ ret.status = "Success"
    /\ io[1].frame.type = "UPDATE_SINGLE_LED"
    /\ io[1].frame.colors = <<"blue">>
    /\ inbound # <<>>


\* checkForDeviceUpdates is called in this step
CheckCalled == pc = "ready" /\ call'.op = "checkForDeviceUpdates"

\* the notifications in the inbound stream
UnreadNotifications == {i \in DOMAIN inbound : IsNotificationHeader(inbound[i])}

\* C34: checkForDeviceUpdates never returns UpToDate while a DEVICE_LIST_UPDATED is
\* unread in the inbound stream; and when the stream starts with such a notification
\* (the server sent it while no request was in flight and the stream is in sync), the
\* session is connected and no socket call of the check fails, the check returns
\* OutOfDate and the out-of-date flag is set afterwards.
C34_NotificationDetected ==
    [][CheckCalled
       => /\ ret'.status = "UpToDate"
             => (/\ UnreadNotifications = {}
                 /\ inbound = <<>>
                 /\ ~isDeviceListOutOfDate)
          /\ (/\ isConnected
              /\ inbound # <<>>
              /\ IsNotificationHeader(Head(inbound))
              /\ \A i \in DOMAIN io' : io'[i].res = "Success")
             => (/\ ret'.status = "OutOfDate"
                 /\ isDeviceListOutOfDate'
                 /\ isConnected')]_vars

\* a requestDeviceList had cleared the flag, the server then sent a notification, and
\* the check has read it from the socket and returned OutOfDate
C34_Witness ==
    /\ Returned("checkForDeviceUpdates")
    /\ ~call.wasOutOfDate
    /\ ret.status = "OutOfDate"
    /\ isDeviceListOutOfDate
    /\ isConnected
    /\ \E i \in Events("receive") : io[i].res = "Success" /\ IsNotificationHeader(io[i].tok)


\* C35: a requestDeviceList on a connected session that returns a status other than
\* Success does not leave the out-of-date flag clear on a session that is still
\* connected: a clear flag on a connected session means that the last sweep returned
\* Success.
C35_FailedSweepLeavesFlagSet ==
    (/\ Returned("requestDeviceList")
     /\ call.wasConnected
     /\ ret.status # "Success"
     /\ isConnected)
    => isDeviceListOutOfDate

\* a sweep was called with the flag set, its read timed out, and it returned NoReply
\* with the flag clear on a connected session
C35_FlagClearAfterFailure ==
    /\ Returned("requestDeviceList")
    /\ call.wasConnected
    /\ call.wasOutOfDate
    /\ ret.status = "NoReply"
    /\ ret.devices = <<>>
    /\ isConnected
    /\ ~isDeviceListOutOfDate


\* connect has returned a failure of a step that follows the TCP connect
ConnectFailedLate ==
    /\ Returned("connect")
    /\ ret.status \in {"RequestVersionFailed", "VersionNotSupported", "SendNameFailed"}

\* C36: when connect has failed after the TCP connection was established, the client
\* is in the state in which connect was called: disconnected, with the negotiated
\* protocol version and the out-of-date flag it had before the call.
C36_FailedConnectReverts ==
    ConnectFailedLate
    => (/\ ~isConnected
        /\ negotiatedProtocolVersion = call.wasVersion
        /\ isDeviceListOutOfDate = call.wasOutOfDate)

\* the first connect of a client got the server's version and failed to send its name:
\* the session is disconnected and the negotiated version is no longer the 0 of the
\* constructor
C36_VersionNotReverted ==
    /\ Returned("connect")
    /\ ret.status = "SendNameFailed"
    /\ ~isConnected
    /\ call.wasVersion = 0
    /\ negotiatedProtocolVersion >= 1
    /\ isDeviceListOutOfDate = call.wasOutOfDate


\* C37: connect called on a session that is already connected returns AlreadyConnected
\* in one step and changes nothing: the only socket call is the refused connect, no
\* message is sent, the connection stays open with what it holds, and the negotiated
\* protocol version, the receive timeout, the blocking mode and the out-of-date flag
\* are unchanged.
C37_AlreadyConnectedChangesNothing ==
    [][(pc = "ready" /\ isConnected /\ call'.op = "connect")
       => (/\ pc' = "done"
           /\ ret'.status = "AlreadyConnected"
           /\ io' = <<[call |-> "connect", res |-> "AlreadyConnected"]>>
           /\ Sent(io') = <<>>
           /\ UNCHANGED <<isConnected, blockingMode, timeout, negotiatedProtocolVersion,
                          isDeviceListOutOfDate, inbound, pending, peerClosed>>)]_vars

\* a second connect has returned AlreadyConnected on a session whose timeout was changed
\* and whose device list is up to date
C37_Witness ==
    /\ Returned("connect")
    /\ call.wasConnected
    /\ ret.status = "AlreadyConnected"
    /\ isConnected
    /\ timeout # DefaultTimeout
    /\ ~isDeviceListOutOfDate
    /\ negotiatedProtocolVersion = call.wasVersion
    /\ negotiatedProtocolVersion >= 1

=============================================================================
